---- MODULE Spec2Model ----
(***************************************************************************)
(* A model of @swan-io/request: Request.make (the fetch binding of         *)
(* src/src/Request.ts) as a state machine over the events of one request:  *)
(* the executor body, the timer callback, the two awaits of init(), the    *)
(* two callbacks of init().then(...) and the caller's cancel.              *)
(* The post-processors badStatusToError and emptyToError are operators,    *)
(* and the XMLHttpRequest binding of src/unnamed/part_000 is a second      *)
(* state machine over the statements of its executor and the events of     *)
(* its transport.                                                          *)
(***************************************************************************)
EXTENDS Integers, Sequences, FiniteSets, TLC

\* ------------------------------------------------------------------ bounds

\* The largest timeout (in ms) a configuration is given.
MaxTimeout == 2

\* The most calls of cancel() a caller makes on one future.
MaxCancels == 2

\* ------------------------------------------------------------- input sets

\* The requests of a run.  Spec drives the requests of Active.
Reqs == {"A", "B"}
Active == {"A"}

Urls == {"/api/health", "data:text/plain,hello!"}

\* Config.type: the four modes of ResponseType, and "undefined" for a
\* configuration that gives none.
ResponseType == {"text", "arraybuffer", "blob", "json"}
Types == ResponseType \cup {"undefined"}

\* Config.timeout: absent, or a number of milliseconds.
NoTimeout == [set |-> FALSE, ms |-> 0]
Timeouts == {NoTimeout} \cup {[set |-> TRUE, ms |-> t] : t \in 0..MaxTimeout}

\* What the transport may answer: a status and the raw body.
Statuses == {200, 204, 299, 300, 404, 500}
Bodies == {"", "hello!", "{\"ok\":true}", "{\"ok\":UNKNOWN}", "\"hi\"", "null"}

\* -------------------------------------------------------------- data types

\* Decoded bodies are tagged values, so that a string, a parsed JSON value,
\* an ArrayBuffer and a Blob of the same bytes are four different values.
NoValue == [kind |-> "none", v |-> ""]

\* Option (from @swan-io/boxed), and the payload left unassigned.
Some(x) == [tag |-> "Some", value |-> x]
None == [tag |-> "None", value |-> NoValue]
Undefined == [tag |-> "undefined", value |-> NoValue]

\* The error classes.
NoError == [name |-> "none", url |-> "", timeout |-> NoTimeout]
NetworkError(url) == [name |-> "NetworkError", url |-> url, timeout |-> NoTimeout]
TimeoutError(url, timeout) == [name |-> "TimeoutError", url |-> url, timeout |-> timeout]
CanceledError == [name |-> "CanceledError", url |-> "", timeout |-> NoTimeout]
\* What fetch and the body readers reject with when the transfer fails.
TypeError == [name |-> "TypeError", url |-> "", timeout |-> NoTimeout]

\* Response<T>.
NoResponse == [url |-> "", status |-> 0, ok |-> FALSE, response |-> Undefined]

\* Result (from @swan-io/boxed).
NoResult == [tag |-> "none", value |-> NoResponse, error |-> NoError]
Ok(x) == [tag |-> "Ok", value |-> x, error |-> NoError]
Error(e) == [tag |-> "Error", value |-> NoResponse, error |-> e]

\* The states of a Future (from @swan-io/boxed).
Pending == [tag |-> "Pending", value |-> NoResult]
Cancelled == [tag |-> "Cancelled", value |-> NoResult]
Resolved(v) == [tag |-> "Resolved", value |-> v]

\* The resolver Future.make hands to the executor (@swan-io/boxed, the
\* single-assignment result slot of the design): the first resolution of a
\* pending future stands, a later one (or one after cancel) is ignored.
ResolveAlways(f, v) == Resolved(v)
resolve(f, v) == IF f.tag = "Pending" THEN Resolved(v) ELSE f

\* Future.cancel() (@swan-io/boxed): only a pending future is cancelled and
\* runs the cancel action its executor returned.
CancelRunsAlways(f) == TRUE
cancelRuns(f) == f.tag = "Pending"

\* --------------------------------------------------------- pure functions

\* Response.ok of the fetch Response the code reads: the status is an
\* "ok status", 200 to 299.
OkUpTo300(status) == status >= 200 /\ status <= 300
ResOk(status) == status >= 200 /\ status < 300

\* JSON.parse, over the bodies of the model.
JsonValid(b) == b \in {"{\"ok\":true}", "\"hi\"", "null"}
JsonParse(b) ==
  CASE b = "{\"ok\":true}" -> [kind |-> "object", v |-> "ok:true"]
    [] b = "\"hi\"" -> [kind |-> "string", v |-> "hi"]
    [] b = "null" -> [kind |-> "null", v |-> ""]
    [] OTHER -> NoValue

\* Whether res.arrayBuffer(), res.blob(), res.json(), res.text() fulfils on
\* a body that was received whole, and with what.
Decodes(type, b) == type # "json" \/ JsonValid(b)
Decode(type, b) ==
  CASE type = "arraybuffer" -> [kind |-> "arraybuffer", v |-> b]
    [] type = "blob" -> [kind |-> "blob", v |-> b]
    [] type = "json" -> JsonParse(b)
    [] type = "text" -> [kind |-> "string", v |-> b]

\* ------------------------------------------------------- post-processors

\* Option.toUndefined(): the value of a Some, undefined for a None.
UndefinedValue == [kind |-> "undefined", v |-> ""]
toUndefined(opt) == IF opt.tag = "Some" THEN opt.value ELSE UndefinedValue

\* The error classes of the post-processors.
NoPostError == [name |-> "none", url |-> "", status |-> 0, response |-> UndefinedValue]
BadStatusError(url, status, resp) ==
  [name |-> "BadStatusError", url |-> url, status |-> status, response |-> resp]
EmptyResponseError(url) ==
  [name |-> "EmptyResponseError", url |-> url, status |-> 0, response |-> UndefinedValue]

\* The Result a post-processor returns: Ok of an outcome (badStatusToError),
\* Ok of an unwrapped body (emptyToError), or Error.
NoPostResult == [tag |-> "none", outcome |-> NoResponse, body |-> NoValue, error |-> NoPostError]
OkOutcome(o) == [tag |-> "Ok", outcome |-> o, body |-> NoValue, error |-> NoPostError]
OkBody(v) == [tag |-> "Ok", outcome |-> NoResponse, body |-> v, error |-> NoPostError]
PostError(e) == [tag |-> "Error", outcome |-> NoResponse, body |-> NoValue, error |-> e]

\* Option.toResult(error): Ok of the value of a Some, Error(error) for a None.
toResult(opt, e) == IF opt.tag = "Some" THEN OkBody(opt.value) ELSE PostError(e)

\* badStatusToError(response).
BadStatusOnlyWithBody(o) ==
  IF o.ok \/ o.response.tag = "None" THEN OkOutcome(o)
  ELSE PostError(BadStatusError(o.url, o.status, toUndefined(o.response)))
BadStatusDropsBody(o) ==
  IF o.ok THEN OkOutcome(o)
  ELSE PostError(BadStatusError(o.url, o.status, UndefinedValue))
badStatusToError(o) ==
  IF o.ok THEN OkOutcome(o)
  ELSE PostError(BadStatusError(o.url, o.status, toUndefined(o.response)))

\* emptyToError(response).
EmptyToErrorChecksOk(o) ==
  IF o.ok THEN toResult(o.response, EmptyResponseError(o.url))
  ELSE PostError(EmptyResponseError(o.url))
emptyToError(o) == toResult(o.response, EmptyResponseError(o.url))

\* mapOkToResult(f) (@swan-io/boxed, the "map success through a function
\* that itself returns success-or-error" combinator): f applied to the value
\* of an Ok (mapped, here), an Error passed on as it is.
mapOkToResult(result, mapped) == IF result.tag = "Ok" THEN mapped ELSE result

\* The outcomes the post-processors are given: any Response<T>, its ok and
\* its status independent, its response a None or a Some (of a body that
\* may be the empty string or null).
Values ==
  { [kind |-> "string", v |-> ""], [kind |-> "string", v |-> "hello!"],
    [kind |-> "object", v |-> "ok:true"], [kind |-> "null", v |-> ""] }
Outcomes ==
  [url : Urls, status : Statuses, ok : BOOLEAN, response : {None} \cup {Some(v) : v \in Values}]

NoPost == [o |-> NoResponse, by |-> "idle", out |-> NoPostResult]

\* ------------------------------------------- the XMLHttpRequest binding

\* Config.headers: absent, or a mapping given as its set of entries.
HeaderEntries ==
  { <<"Accept", "text/plain">>, <<"Authorization", "Bearer t">>, <<"X-Trace", "">> }
NoHeaders == [set |-> FALSE, entries |-> {}]
HeaderMappings == {NoHeaders} \cup {[set |-> TRUE, entries |-> h] : h \in SUBSET HeaderEntries}

\* What the transport may answer: xhr.status and xhr.response, null for no
\* response.
XhrStatuses == {200, 404}
Null == [kind |-> "null", v |-> ""]
XhrResponses == {Null, [kind |-> "string", v |-> "hello!"]}

\* The events of an XMLHttpRequest the binding listens to.
TerminalEvents == {"error", "load", "timeout"}
ObserverEvents == {"loadstart", "progress"}

NoXhrConfig ==
  [url |-> "", headers |-> NoHeaders, timeout |-> NoTimeout,
   onLoadStart |-> FALSE, onProgress |-> FALSE]
XhrConfigs ==
  [url : {"/api/health"}, headers : HeaderMappings,
   timeout : {NoTimeout, [set |-> TRUE, ms |-> 1]},
   onLoadStart : BOOLEAN, onProgress : BOOLEAN]

\* Before any call of the XMLHttpRequest binding's make.
NoXhr ==
  [pc |-> "idle", config |-> NoXhrConfig, pending |-> {}, attached |-> {},
   listeners |-> {}, future |-> Pending, aborted |-> FALSE,
   fired |-> 0, last |-> "none", forwarded |-> 0, cancels |-> 0]

\* ------------------------------------------------------------------ state

VARIABLES
  config,   \* the configuration Request.make was called with
  future,   \* the state of the Future it returned
  signal,   \* controller.signal: aborted, and the abort reason
  timer,    \* the setTimeout of the request: "none", "armed", "fired"
  pc,       \* where init() and its then-callbacks are
  res,      \* the Response fetch fulfilled with
  initValue,\* what init() returned
  initError,\* what init() threw
  bodyEnd,  \* how the read of the body ended
  cancels,  \* how many times the caller has called cancel() on the future
  post,     \* a post-processor applied to an outcome: input, function, result
  resolveCalls, \* how many times the executor has called resolve
  xhr       \* a request of the XMLHttpRequest binding (src/unnamed/part_000)

vars == <<config, future, signal, timer, pc, res, initValue, initError, bodyEnd,
          cancels, post, resolveCalls, xhr>>

NoConfig == [url |-> "", type |-> "undefined", timeout |-> NoTimeout]
NoRes == [status |-> 0, body |-> ""]
NotAborted == [aborted |-> FALSE, reason |-> NoError]

\* controller.abort(reason): the first abort sets the reason, a later one
\* does nothing.
AbortOverwrites(s, reason) == [aborted |-> TRUE, reason |-> reason]
abort(s, reason) == IF s.aborted THEN s ELSE [aborted |-> TRUE, reason |-> reason]

\* Before any call of Request.make.
InitRequests ==
  /\ config = [r \in Reqs |-> NoConfig]
  /\ future = [r \in Reqs |-> Pending]
  /\ signal = [r \in Reqs |-> NotAborted]
  /\ timer = [r \in Reqs |-> "none"]
  /\ pc = [r \in Reqs |-> "idle"]
  /\ res = [r \in Reqs |-> NoRes]
  /\ initValue = [r \in Reqs |-> NoResponse]
  /\ initError = [r \in Reqs |-> NoError]
  /\ bodyEnd = [r \in Reqs |-> "none"]
  /\ cancels = [r \in Reqs |-> 0]
  /\ resolveCalls = [r \in Reqs |-> 0]

Init == InitRequests /\ post = NoPost /\ xhr = NoXhr

\* ---------------------------------------------------------------- helpers

\* const controller = new AbortController(), in the executor: each call of
\* Request.make has a controller of its own.
SharedController(r) == "A"
controllerOf(r) == r

\* if (timeout): a timeout that is absent or 0 arms no timer.
ArmsOnAnyNumber(timeout) == timeout.set
ArmsTimer(timeout) == timeout.set /\ timeout.ms # 0

\* The callback of setTimeout: controller.abort(new TimeoutError(url, timeout)).
OnTimerNoAbort(s, url, timeout) == s
OnTimerWithoutTimeout(s, url, timeout) == abort(s, TimeoutError(url, NoTimeout))
onTimer(s, url, timeout) == abort(s, TimeoutError(url, timeout))

\* The cancel action the executor returns: controller.abort(new CanceledError()).
CancelWithoutAbort(s) == s
cancelAction(s) == abort(s, CanceledError)

\* The payload init() is left with when the read of the body fulfilled: one
\* of the four ifs on type has run.
PayloadAlwaysText(type, b) == Some([kind |-> "string", v |-> b])
payloadDecoded(type, b) == Some(Decode(type, b))

\* The payload init() is left with when the read of the body threw: the
\* catch clause, whatever was thrown.
payloadCaught == None

\* The Response<T> init() returns.
ResponseWithOkFromBody(url, status, payload) ==
  [url |-> url, status |-> status, ok |-> payload.tag = "Some", response |-> payload]
response(url, status, payload) ==
  [url |-> url, status |-> status, ok |-> ResOk(status), response |-> payload]

\* The first callback of init().then: resolve(Result.Ok(response)).
ErrorOnBadStatus(f, resp) ==
  IF resp.ok THEN resolve(f, Ok(resp)) ELSE resolve(f, Error(NetworkError(resp.url)))
onFulfilled(f, resp) == resolve(f, Ok(resp))

\* The second callback of init().then, on the error init() threw.
OnRejectedOnlyTimeout(f, error, url) ==
  IF error.name = "TimeoutError" THEN resolve(f, Error(error)) ELSE f
OnRejectedForwardsError(f, error, url) ==
  IF error.name = "CanceledError" THEN f ELSE resolve(f, Error(error))
onRejected(f, error, url) ==
  IF error.name = "CanceledError" THEN f
  ELSE IF error.name = "TimeoutError" THEN resolve(f, Error(error))
  ELSE resolve(f, Error(NetworkError(url)))

\* Whether the second callback of init().then calls resolve: in every
\* branch but the one of the CanceledError.
onRejectedResolves(error) == error.name # "CanceledError"

\* ---------------------------------------------------------------- actions

\* Request.make(config): the executor body run by Future.make.  A new
\* AbortController, the timer when the timeout is truthy, and init() up to
\* its first await, the call of fetch.
make(r, url, type, timeout) ==
  /\ pc[r] = "idle"
  /\ config' = [config EXCEPT ![r] = [url |-> url, type |-> type, timeout |-> timeout]]
  /\ future' = [future EXCEPT ![r] = Pending]
  /\ signal' = [signal EXCEPT ![controllerOf(r)] = NotAborted]
  /\ timer' = [timer EXCEPT ![r] = IF ArmsTimer(timeout) THEN "armed" ELSE "none"]
  /\ pc' = [pc EXCEPT ![r] = "awaitFetch"]
  /\ UNCHANGED <<res, initValue, initError, bodyEnd, cancels, post, resolveCalls, xhr>>

\* The timer expires: its callback aborts the controller with a
\* TimeoutError.  The timer is never cleared, so it expires wherever the
\* request is.
timerExpires(r) ==
  /\ timer[r] = "armed"
  /\ timer' = [timer EXCEPT ![r] = "fired"]
  /\ signal' = [signal EXCEPT ![controllerOf(r)] = onTimer(signal[controllerOf(r)], config[r].url, config[r].timeout)]
  /\ UNCHANGED <<config, future, pc, res, initValue, initError, bodyEnd, cancels, post, resolveCalls, xhr>>

\* fetch fulfils with a Response (any status): init() goes on to read the
\* body in the mode of type, and with no mode reads nothing and returns.
\* An abort does not take back a fulfilment the host had already decided:
\* fetch may fulfil with the signal aborted.
fetchFulfils(r, status, body) ==
  /\ pc[r] = "awaitFetch"
  /\ res' = [res EXCEPT ![r] = [status |-> status, body |-> body]]
  /\ IF config[r].type \in ResponseType
       THEN /\ pc' = [pc EXCEPT ![r] = "awaitBody"]
            /\ UNCHANGED <<initValue, bodyEnd>>
       ELSE /\ pc' = [pc EXCEPT ![r] = "fulfilled"]
            /\ initValue' = [initValue EXCEPT ![r] = response(config[r].url, status, Undefined)]
            /\ bodyEnd' = [bodyEnd EXCEPT ![r] = "unread"]
  /\ UNCHANGED <<config, future, signal, timer, initError, cancels, post, resolveCalls, xhr>>

\* fetch rejects because the transfer failed: init() throws a TypeError.
\* An abort does not take back a rejection the host had already decided:
\* the caller may cancel at once and init() still throws the TypeError.
fetchFails(r) ==
  /\ pc[r] = "awaitFetch"
  /\ pc' = [pc EXCEPT ![r] = "rejected"]
  /\ initError' = [initError EXCEPT ![r] = TypeError]
  /\ UNCHANGED <<config, future, signal, timer, res, initValue, bodyEnd, cancels, post, resolveCalls, xhr>>

\* fetch rejects because its signal was aborted (when the host had not
\* fulfilled it before): init() throws the abort reason.
fetchAborted(r) ==
  /\ pc[r] = "awaitFetch"
  /\ signal[controllerOf(r)].aborted
  /\ pc' = [pc EXCEPT ![r] = "rejected"]
  /\ initError' = [initError EXCEPT ![r] = signal[controllerOf(r)].reason]
  /\ UNCHANGED <<config, future, signal, timer, res, initValue, bodyEnd, cancels, post, resolveCalls, xhr>>

\* init() returns the Response<T> with the given payload.
initReturns(r, payload, how) ==
  /\ pc' = [pc EXCEPT ![r] = "fulfilled"]
  /\ initValue' = [initValue EXCEPT ![r] = response(config[r].url, res[r].status, payload)]
  /\ bodyEnd' = [bodyEnd EXCEPT ![r] = how]
  /\ UNCHANGED <<config, future, signal, timer, res, initError, cancels, post, resolveCalls, xhr>>

\* The read of the body fulfils: the body arrived whole and decodes in the
\* mode of type.  As for fetch, the read may fulfil with the signal aborted.
bodyDecoded(r) ==
  /\ pc[r] = "awaitBody"
  /\ Decodes(config[r].type, res[r].body)
  /\ initReturns(r, payloadDecoded(config[r].type, res[r].body), "decoded")

\* The read of the body rejects because the body does not decode (res.json()
\* on malformed JSON): the catch clause.  The body arrived whole, with the
\* signal aborted or not.
bodyMalformed(r) ==
  /\ pc[r] = "awaitBody"
  /\ ~Decodes(config[r].type, res[r].body)
  /\ initReturns(r, payloadCaught, "malformed")

\* The read of the body rejects because the transfer failed while the body
\* was streamed: the catch clause, which has no condition on the signal (the
\* caller may cancel between the rejection and the continuation of init()).
bodyFails(r) ==
  /\ pc[r] = "awaitBody"
  /\ initReturns(r, payloadCaught, "failed")

\* The read of the body rejects with the abort reason because the signal
\* was aborted while the body was streamed: the catch clause.
bodyAborted(r) ==
  /\ pc[r] = "awaitBody"
  /\ signal[controllerOf(r)].aborted
  /\ initReturns(r, payloadCaught, "aborted")

\* init() has returned: the first callback of then runs.
thenFulfilled(r) ==
  /\ pc[r] = "fulfilled"
  /\ pc' = [pc EXCEPT ![r] = "done"]
  /\ future' = [future EXCEPT ![r] = onFulfilled(future[r], initValue[r])]
  /\ resolveCalls' = [resolveCalls EXCEPT ![r] = @ + 1]
  /\ UNCHANGED <<config, signal, timer, res, initValue, initError, bodyEnd, cancels, post, xhr>>

\* init() has thrown: the second callback of then runs.
thenRejected(r) ==
  /\ pc[r] = "rejected"
  /\ pc' = [pc EXCEPT ![r] = "done"]
  /\ future' = [future EXCEPT ![r] = onRejected(future[r], initError[r], config[r].url)]
  /\ resolveCalls' = [resolveCalls EXCEPT ![r] =
                        IF onRejectedResolves(initError[r]) THEN @ + 1 ELSE @]
  /\ UNCHANGED <<config, signal, timer, res, initValue, initError, bodyEnd, cancels, post, xhr>>

\* The caller calls cancel() on the future: a pending future becomes
\* cancelled and runs the cancel action of the executor; any other future is
\* left as it is.
cancel(r) ==
  /\ pc[r] # "idle"
  /\ cancels[r] < MaxCancels
  /\ cancels' = [cancels EXCEPT ![r] = @ + 1]
  /\ IF cancelRuns(future[r])
       THEN /\ future' = [future EXCEPT ![r] = Cancelled]
            /\ signal' = [signal EXCEPT ![controllerOf(r)] = cancelAction(signal[controllerOf(r)])]
       ELSE UNCHANGED <<future, signal>>
  /\ UNCHANGED <<config, timer, pc, res, initValue, initError, bodyEnd, post, resolveCalls, xhr>>

\* The events of request r, its inputs drawn from the given sets.
Step(r, urls, types, timeouts, statuses, bodies) ==
  \/ \E url \in urls, type \in types, timeout \in timeouts : make(r, url, type, timeout)
  \/ timerExpires(r)
  \/ \E status \in statuses, body \in bodies : fetchFulfils(r, status, body)
  \/ fetchFails(r)
  \/ fetchAborted(r)
  \/ bodyDecoded(r)
  \/ bodyMalformed(r)
  \/ bodyFails(r)
  \/ bodyAborted(r)
  \/ thenFulfilled(r)
  \/ thenRejected(r)
  \/ cancel(r)

Next == \E r \in Active : Step(r, Urls, Types, Timeouts, Statuses, Bodies)

Spec == Init /\ [][Next]_vars

\* What the host delivers for a request, once it is due: the end of fetch,
\* the end of the read of the body, and the callbacks of settled promises.
fetchEnds(r) ==
  \/ \E status \in Statuses, body \in Bodies : fetchFulfils(r, status, body)
  \/ fetchFails(r)
  \/ fetchAborted(r)
bodyEnds(r) == bodyDecoded(r) \/ bodyMalformed(r) \/ bodyFails(r) \/ bodyAborted(r)
thenRuns(r) == thenFulfilled(r) \/ thenRejected(r)

\* The transport ends every transfer and every read of a body it started,
\* and the callbacks of a settled promise run.
SpecFair ==
  /\ Spec
  /\ \A r \in Active :
       WF_vars(fetchEnds(r)) /\ WF_vars(bodyEnds(r)) /\ WF_vars(thenRuns(r))

\* The transport may never end a transfer by itself: only the timer, the
\* rejections an abort causes and the callbacks of settled promises are
\* sure to happen.
SpecTimerFair ==
  /\ Spec
  /\ \A r \in Active :
       /\ WF_vars(timerExpires(r))
       /\ WF_vars(fetchAborted(r)) /\ WF_vars(bodyAborted(r))
       /\ WF_vars(thenRuns(r))

\* Two requests made concurrently, their events interleaved in every order,
\* over a smaller choice of inputs.
PairUrls == {"/api/health"}
PairTypes == {"json"}
PairTimeouts == {NoTimeout, [set |-> TRUE, ms |-> 1]}
PairStatuses == {200}
PairBodies == {"{\"ok\":true}", "{\"ok\":UNKNOWN}"}

NextPair ==
  \E r \in Reqs : Step(r, PairUrls, PairTypes, PairTimeouts, PairStatuses, PairBodies)

SpecPair == Init /\ [][NextPair]_vars

\* The post-processors, each applied to an outcome drawn from Outcomes.
requestVars ==
  <<config, future, signal, timer, pc, res, initValue, initError, bodyEnd, cancels,
    resolveCalls>>

InitPost ==
  /\ InitRequests
  /\ post \in {[o |-> o, by |-> "input", out |-> NoPostResult] : o \in Outcomes}
  /\ xhr = NoXhr

applyBadStatusToError ==
  /\ post.by = "input"
  /\ post' = [post EXCEPT !.by = "badStatusToError", !.out = badStatusToError(post.o)]
  /\ UNCHANGED <<requestVars, xhr>>

applyEmptyToError ==
  /\ post.by = "input"
  /\ post' = [post EXCEPT !.by = "emptyToError", !.out = emptyToError(post.o)]
  /\ UNCHANGED <<requestVars, xhr>>

\* badStatusToError and then emptyToError, chained with mapOkToResult.
applyChain ==
  /\ post.by = "input"
  /\ post' = [post EXCEPT !.by = "chain",
                          !.out = mapOkToResult(badStatusToError(post.o),
                                                emptyToError(badStatusToError(post.o).outcome))]
  /\ UNCHANGED <<requestVars, xhr>>

NextPost == applyBadStatusToError \/ applyEmptyToError \/ applyChain

SpecPost == InitPost /\ [][NextPost]_vars

\* ------------------------------ the XMLHttpRequest binding: its operations

\* The most events the transport fires for one request, the loadstart of
\* send() included.
MaxEvents == 3

\* Dict.entries(headers): every entry of the mapping.
EntriesWithValue(headers) == {e \in headers.entries : e[2] # ""}
entries(headers) == IF headers.set THEN headers.entries ELSE {}

\* The addEventListener calls of the executor: the three terminal handlers,
\* and the observers the caller supplied.
ListenersWithoutTimeout(c) ==
  {"error", "load"}
    \cup (IF c.onLoadStart THEN {"loadstart"} ELSE {})
    \cup (IF c.onProgress THEN {"progress"} ELSE {})
addEventListeners(c) ==
  {"error", "load", "timeout"}
    \cup (IF c.onLoadStart THEN {"loadstart"} ELSE {})
    \cup (IF c.onProgress THEN {"progress"} ELSE {})

\* cleanupEvents(): the removeEventListener calls, which tolerate a listener
\* that is not registered.
CleanupTerminalOnly(listeners, c) == listeners \ {"error", "load", "timeout"}
cleanupEvents(listeners, c) ==
  ((listeners \ {"error", "load", "timeout"})
     \ (IF c.onLoadStart THEN {"loadstart"} ELSE {}))
     \ (IF c.onProgress THEN {"progress"} ELSE {})

\* Option.fromNullable(xhr.response).
fromNullable(v) == IF v = Null THEN None ELSE Some(v)

\* The Result each terminal handler resolves with.
onLoadResult(c, status, resp) ==
  Ok([url |-> c.url, status |-> status, ok |-> status >= 200 /\ status < 300,
      response |-> fromNullable(resp)])
onErrorResult(c) == Error(NetworkError(c.url))
onTimeoutResult(c) == Error(TimeoutError(c.url, c.timeout))

\* The executor, up to the headers: new XMLHttpRequest(), open(method, url,
\* true), responseType and timeout.
xhrOpen(c) ==
  /\ xhr.pc = "idle"
  /\ xhr' = [xhr EXCEPT !.pc = "opened", !.config = c, !.pending = entries(c.headers)]
  /\ UNCHANGED <<requestVars, post>>

\* One turn of the forEach over the entries: xhr.setRequestHeader(key, value).
xhrSetRequestHeader(e) ==
  /\ xhr.pc = "opened"
  /\ e \in xhr.pending
  /\ xhr' = [xhr EXCEPT !.pending = @ \ {e}, !.attached = @ \cup {e}]
  /\ UNCHANGED <<requestVars, post>>

\* The executor after the forEach: the handlers are defined and registered.
xhrAddEventListeners ==
  /\ xhr.pc = "opened"
  /\ xhr.pending = {}
  /\ xhr' = [xhr EXCEPT !.pc = "listening", !.listeners = addEventListeners(xhr.config)]
  /\ UNCHANGED <<requestVars, post>>

\* xhr.send(body), and the executor returns its cancel action.  send()
\* dispatches loadstart before it returns: the first event of the request,
\* forwarded to the onLoadStart of the caller when it is registered.
xhrSend ==
  /\ xhr.pc = "listening"
  /\ xhr' = [xhr EXCEPT !.pc = "sent", !.fired = @ + 1, !.last = "loadstart",
                        !.forwarded = IF "loadstart" \in xhr.listeners THEN @ + 1 ELSE @]
  /\ UNCHANGED <<requestVars, post>>

\* The transport fires progress, or one more loadstart: a registered
\* observer of the caller is called with the event.
xhrObserved(ev) ==
  /\ xhr.pc = "sent"
  /\ xhr.fired < MaxEvents
  /\ xhr' = [xhr EXCEPT !.fired = @ + 1, !.last = ev,
                        !.forwarded = IF ev \in xhr.listeners THEN @ + 1 ELSE @]
  /\ UNCHANGED <<requestVars, post>>

\* The transport fires a terminal event: its handler, when registered, runs
\* cleanupEvents() and resolves.
xhrTerminal(ev, result) ==
  /\ xhr.pc = "sent"
  /\ xhr.fired < MaxEvents
  /\ IF ev \in xhr.listeners
       THEN xhr' = [xhr EXCEPT !.fired = @ + 1, !.last = ev,
                               !.listeners = cleanupEvents(@, xhr.config),
                               !.future = resolve(@, result)]
       ELSE xhr' = [xhr EXCEPT !.fired = @ + 1, !.last = ev]
  /\ UNCHANGED <<requestVars, post>>

xhrLoad(status, resp) == xhrTerminal("load", onLoadResult(xhr.config, status, resp))
xhrError == xhrTerminal("error", onErrorResult(xhr.config))
xhrTimeout == xhrTerminal("timeout", onTimeoutResult(xhr.config))

\* The caller calls cancel() on the future: a pending future becomes
\* cancelled and runs the cancel action, cleanupEvents() and xhr.abort().
xhrCancel ==
  /\ xhr.pc = "sent"
  /\ xhr.cancels < MaxCancels
  /\ IF cancelRuns(xhr.future)
       THEN xhr' = [xhr EXCEPT !.cancels = @ + 1,
                               !.future = Cancelled,
                               !.listeners = cleanupEvents(@, xhr.config),
                               !.aborted = TRUE]
       ELSE xhr' = [xhr EXCEPT !.cancels = @ + 1]
  /\ UNCHANGED <<requestVars, post>>

\* The transport is not trusted to stay silent after a terminal event or an
\* abort: it may fire any event, in any order, once the request is sent.
NextXhr ==
  \/ \E c \in XhrConfigs : xhrOpen(c)
  \/ \E e \in HeaderEntries : xhrSetRequestHeader(e)
  \/ xhrAddEventListeners
  \/ xhrSend
  \/ \E ev \in ObserverEvents : xhrObserved(ev)
  \/ \E status \in XhrStatuses, resp \in XhrResponses : xhrLoad(status, resp)
  \/ xhrError
  \/ xhrTimeout
  \/ xhrCancel

SpecXhr == Init /\ [][NextXhr]_vars

\* ----------------------------------------------------------------- claims

\* A request whose then-callback has run, one whose future the caller did
\* not cancel, and the two kinds of resolved future.
Made(r) == pc[r] # "idle"
Done(r) == pc[r] = "done"
NotCancelled(r) == future[r].tag # "Cancelled"
ResolvedOk(r) == future[r].tag = "Resolved" /\ future[r].value.tag = "Ok"
ResolvedError(r) == future[r].tag = "Resolved" /\ future[r].value.tag = "Error"

\* C1: the future leaves the pending state at most once: a future that is
\* resolved or cancelled keeps its state and its value in every later step,
\* whatever the transport, the timer or the caller do.
C1_SettledOnce ==
  [][\A r \in Reqs : future[r].tag # "Pending" => future'[r] = future[r]]_vars

\* C1 witness: the caller cancelled while the body was read, the read then
\* rejected, init() returned and its then-callback called resolve on the
\* cancelled future.
C1_Witness ==
  \E r \in Reqs : future[r].tag = "Cancelled" /\ Done(r) /\ bodyEnd[r] = "aborted"

\* C2: a cancel of a pending future leaves it cancelled at once and aborts
\* the signal of the transport (with the CanceledError when nothing had
\* aborted it before), and a cancelled future is never resolved.
C2_CancelAborts ==
  [][\A r \in Reqs :
       /\ (cancel(r) /\ future[r].tag = "Pending") =>
            /\ future'[r] = Cancelled
            /\ signal'[r].aborted
            /\ ~signal[r].aborted => signal'[r].reason = CanceledError
       /\ future[r].tag = "Cancelled" => future'[r].tag = "Cancelled"]_vars

\* C2 witness: a request cancelled while fetch was pending, whose fetch then
\* rejected with the CanceledError and whose then-callback has run.
C2_Witness ==
  \E r \in Reqs :
    /\ future[r] = Cancelled
    /\ signal[r].reason = CanceledError
    /\ initError[r] = CanceledError
    /\ Done(r)

\* The timer expired while the transfer was in flight: the abort it made
\* rejected fetch or the read of the body.
TimedOutInFlight(r) ==
  /\ signal[r].reason.name = "TimeoutError"
  /\ initError[r].name = "TimeoutError" \/ bodyEnd[r] = "aborted"

\* C3: a request that is not cancelled and whose timer expired before the
\* transfer completed resolves with Error(TimeoutError(url, timeout)).
C3_TimeoutWins ==
  \A r \in Reqs :
    (Done(r) /\ NotCancelled(r) /\ TimedOutInFlight(r)) =>
      future[r] = Resolved(Error(TimeoutError(config[r].url, config[r].timeout)))

\* The transfer failed by itself: fetch rejected, or the read of the body
\* rejected, for a reason that is neither the cancel nor the timeout.
TransportFailed(r) == initError[r].name = "TypeError" \/ bodyEnd[r] = "failed"

\* C4: a request that is not cancelled, whose timer has not expired and
\* whose transfer failed resolves with Error(NetworkError(url)).
C4_FailureIsNetworkError ==
  \A r \in Reqs :
    (Done(r) /\ NotCancelled(r) /\ timer[r] # "fired" /\ TransportFailed(r)) =>
      future[r] = Resolved(Error(NetworkError(config[r].url)))

\* The transfer completed at transport level: a response was received and
\* its body arrived whole (decodable or not), or was not asked for.
Completed(r) == bodyEnd[r] \in {"decoded", "malformed", "unread"}

\* C5: whatever the status, a completed transfer that is not cancelled
\* resolves with Ok carrying that status; and an error result is only ever
\* delivered for a request that received no response.
C5_AnyStatusIsOk ==
  \A r \in Reqs :
    /\ (Done(r) /\ NotCancelled(r) /\ Completed(r)) =>
         (ResolvedOk(r) /\ future[r].value.value.status = res[r].status)
    /\ ResolvedError(r) => res[r] = NoRes

\* C5 witness: a request resolved with Ok and the status 404.
C5_Witness ==
  \E r \in Reqs : ResolvedOk(r) /\ Completed(r) /\ future[r].value.value.status = 404

\* C6: in every success result, ok is true exactly when 200 <= status < 300.
C6_OkIffStatus2xx ==
  \A r \in Reqs :
    ResolvedOk(r) =>
      (future[r].value.value.ok <=>
         (200 <= future[r].value.value.status /\ future[r].value.value.status < 300))

\* C6 witness: success results with the statuses 299 (ok) and 300 (not ok)
\* are both delivered; this one is the status 300.
C6_Witness ==
  \E r \in Reqs :
    ResolvedOk(r) /\ future[r].value.value.status = 300 /\ ~future[r].value.value.ok

\* C7: when the body does not decode in the requested mode, the request
\* (not cancelled) resolves with Ok, the response absent, and the status and
\* ok of the transport response.
C7_DecodeFailureIsNone ==
  \A r \in Reqs :
    (Done(r) /\ NotCancelled(r) /\ bodyEnd[r] = "malformed") =>
      future[r] = Resolved(Ok([url |-> config[r].url,
                               status |-> res[r].status,
                               ok |-> (200 <= res[r].status /\ res[r].status < 300),
                               response |-> None]))

\* C7 witness: malformed JSON read as json with a status that is not 2xx.
C7_Witness ==
  \E r \in Reqs :
    /\ Done(r) /\ ResolvedOk(r) /\ bodyEnd[r] = "malformed"
    /\ config[r].type = "json" /\ res[r].body = "{\"ok\":UNKNOWN}" /\ res[r].status = 404

\* C8: in every mode, a completed transfer with an empty body gives a
\* success result whose response is absent (Option.None).
C8_EmptyIsNone ==
  \A r \in Reqs :
    (ResolvedOk(r) /\ Completed(r) /\ config[r].type \in ResponseType
       /\ res[r].body = "") =>
      future[r].value.value.response = None

\* What a body gives in each mode, stated from the tests: text gives the
\* raw string, json the parsed value, arraybuffer and blob the bytes.
Expected(type, b) ==
  CASE type = "text" -> [kind |-> "string", v |-> b]
    [] type = "arraybuffer" -> [kind |-> "arraybuffer", v |-> b]
    [] type = "blob" -> [kind |-> "blob", v |-> b]
    [] type = "json" /\ b = "{\"ok\":true}" -> [kind |-> "object", v |-> "ok:true"]
    [] type = "json" /\ b = "\"hi\"" -> [kind |-> "string", v |-> "hi"]
    [] type = "json" /\ b = "null" -> [kind |-> "null", v |-> ""]
    [] OTHER -> NoValue

\* C9: a completed transfer whose body decodes in the requested mode
\* resolves (when not cancelled) with Ok carrying the request url, the
\* status and Some of the body decoded in that mode.
C9_DecodedIsSome ==
  \A r \in Reqs :
    (Done(r) /\ NotCancelled(r) /\ bodyEnd[r] = "decoded") =>
      future[r] = Resolved(Ok([url |-> config[r].url,
                               status |-> res[r].status,
                               ok |-> (200 <= res[r].status /\ res[r].status < 300),
                               response |-> Some(Expected(config[r].type, res[r].body))]))

\* C9 witness: the JSON of the tests read as json.
C9_Witness ==
  \E r \in Reqs :
    /\ Done(r) /\ ResolvedOk(r) /\ bodyEnd[r] = "decoded"
    /\ config[r].type = "json" /\ res[r].body = "{\"ok\":true}"
    /\ future[r].value.value.response = Some([kind |-> "object", v |-> "ok:true"])

\* C10: a configuration with no mode behaves as with the mode text: the
\* response of a success result is the Option of the body read as text.
C10_DefaultIsText ==
  \A r \in Reqs :
    (ResolvedOk(r) /\ config[r].type = "undefined") =>
      future[r].value.value.response = Some([kind |-> "string", v |-> res[r].body])

\* C11: badStatusToError(o) is Ok(o), o unchanged, when o.ok is true, and
\* otherwise Error(BadStatusError) with the url and the status of o and, as
\* response, the decoded body of o when present and undefined when absent.
C11_BadStatusToError ==
  post.by = "badStatusToError" =>
    IF post.o.ok
      THEN post.out.tag = "Ok" /\ post.out.outcome = post.o
      ELSE /\ post.out.tag = "Error"
           /\ post.out.error.name = "BadStatusError"
           /\ post.out.error.url = post.o.url
           /\ post.out.error.status = post.o.status
           /\ post.out.error.response =
                IF post.o.response.tag = "Some" THEN post.o.response.value
                ELSE [kind |-> "undefined", v |-> ""]

\* C11 witness: badStatusToError applied to an outcome that is not ok and
\* has a body: the BadStatusError carries that body.
C11_Witness ==
  /\ post.by = "badStatusToError"
  /\ ~post.o.ok /\ post.o.status = 404
  /\ post.o.response = Some([kind |-> "string", v |-> "hello!"])
  /\ post.out.error.response = [kind |-> "string", v |-> "hello!"]

\* C12: emptyToError(o) is Ok of the unwrapped body (not of the outcome)
\* when o.response is a Some, and Error(EmptyResponseError) with the url of
\* o when it is a None, whatever o.status and o.ok are.
C12_EmptyToError ==
  post.by = "emptyToError" =>
    IF post.o.response.tag = "Some"
      THEN /\ post.out.tag = "Ok"
           /\ post.out.body = post.o.response.value
           /\ post.out.outcome = NoResponse
      ELSE /\ post.out.tag = "Error"
           /\ post.out.error.name = "EmptyResponseError"
           /\ post.out.error.url = post.o.url

\* C12 witness: emptyToError applied to an outcome that is not ok and has a
\* body gives Ok of that body.
C12_Witness ==
  /\ post.by = "emptyToError"
  /\ ~post.o.ok /\ post.o.status = 500
  /\ post.o.response = Some([kind |-> "object", v |-> "ok:true"])
  /\ post.out.tag = "Ok"

\* C13: a cancel() on a future that is no longer pending (a second cancel,
\* or a cancel after the future resolved) changes neither the state nor the
\* value of the future and aborts nothing.
C13_CancelIsNoOpOnceSettled ==
  [][\A r \in Reqs :
       (cancels'[r] # cancels[r] /\ future[r].tag # "Pending") =>
         (future'[r] = future[r] /\ signal'[r] = signal[r])]_vars

\* C13 witness: a future that resolved and was then cancelled as often as
\* the caller may, its signal never aborted.
C13_Witness ==
  \E r \in Reqs :
    future[r].tag = "Resolved" /\ cancels[r] = MaxCancels /\ ~signal[r].aborted

\* C14: a resolved future holds a success result or an error that is a
\* NetworkError or a TimeoutError: never the CanceledError, nor any other
\* error.
C14_OnlyNetworkOrTimeoutError ==
  \A r \in Reqs :
    future[r].tag = "Resolved" =>
      \/ future[r].value.tag = "Ok"
      \/ /\ future[r].value.tag = "Error"
         /\ future[r].value.error.name \in {"NetworkError", "TimeoutError"}

\* C14 witness: fetch rejected with a TypeError and the future resolved
\* with an error.
C14_Witness ==
  \E r \in Reqs : Done(r) /\ ResolvedError(r) /\ initError[r] = TypeError

\* C17: when the caller cancelled while the body was read, the future is
\* cancelled and stays so once the read has ended (rejected by the abort,
\* rejected by a failure of the transfer, or fulfilled all the same), init()
\* has returned and its then-callback has run: no result is delivered.
C17_CancelDuringDecode ==
  \A r \in Reqs :
    (signal[r].reason = CanceledError
       /\ bodyEnd[r] \in {"aborted", "failed", "decoded", "malformed"})
      => future[r] = Cancelled

\* C17 witness: such a request whose then-callback has run.
C17_Witness ==
  \E r \in Reqs :
    signal[r].reason = CanceledError /\ bodyEnd[r] = "aborted" /\ Done(r) /\ res[r] # NoRes

\* C19: a request with no timeout has no timer and never resolves with a
\* TimeoutError, and a TimeoutError that is delivered carries the url and
\* the timeout of the request's configuration.
C19_TimeoutErrorIsConfigured ==
  \A r \in Reqs :
    /\ ~config[r].timeout.set =>
         /\ timer[r] = "none"
         /\ ~(ResolvedError(r) /\ future[r].value.error.name = "TimeoutError")
    /\ (ResolvedError(r) /\ future[r].value.error.name = "TimeoutError") =>
         /\ future[r].value.error.url = config[r].url
         /\ future[r].value.error.timeout = config[r].timeout

\* C19 witness: a TimeoutError delivered for a timeout of 1 ms.
C19_Witness ==
  \E r \in Reqs :
    /\ ResolvedError(r) /\ future[r].value.error.name = "TimeoutError"
    /\ config[r].timeout = [set |-> TRUE, ms |-> 1]

\* C20, as claimed: every timeout present in the configuration, 0 included,
\* arms a timer.
C20_AnyTimeoutArms ==
  \A r \in Reqs : (Made(r) /\ config[r].timeout.set) => timer[r] # "none"

\* C20, amended: a timer is armed exactly for a timeout that is present and
\* greater than 0; an absent timeout and a timeout of 0 arm none.
C20_PositiveTimeoutArms ==
  \A r \in Reqs :
    Made(r) => (timer[r] # "none" <=> (config[r].timeout.set /\ config[r].timeout.ms > 0))

\* C20 witness: a request made with a timeout of 0, and no timer.
C20_Witness ==
  \E r \in Reqs :
    Made(r) /\ config[r].timeout = [set |-> TRUE, ms |-> 0] /\ timer[r] = "none"

\* C15: when the transport ends what it started, every request that was
\* made is eventually resolved, with a success or an error result, unless
\* the caller cancels it.
C15_SettlesUnlessCancelled ==
  \A r \in Reqs :
    Made(r) ~> (future[r].tag = "Resolved" \/ cancels[r] > 0)

\* C15 witness: a request that was never cancelled and resolved after its
\* transfer failed.
C15_Witness ==
  \E r \in Reqs :
    cancels[r] = 0 /\ Done(r) /\ ResolvedError(r) /\ initError[r] = TypeError

\* C16: a request made with a timeout greater than 0 is eventually resolved,
\* unless the caller cancels it, even when the transport never ends the
\* transfer by itself: the timer expires and its abort ends it.
C16_TimerAloneSettles ==
  \A r \in Reqs :
    (Made(r) /\ config[r].timeout.set /\ config[r].timeout.ms > 0)
      ~> (future[r].tag = "Resolved" \/ cancels[r] > 0)

\* C16 witness: a request that was never cancelled, whose fetch was ended
\* by the abort of the timer, and which resolved.
C16_Witness ==
  \E r \in Reqs :
    /\ cancels[r] = 0 /\ timer[r] = "fired" /\ initError[r].name = "TimeoutError"
    /\ future[r].tag = "Resolved"

\* Request a takes a step: each of its events moves its pc, its timer or
\* its count of cancels.
Moves(a) == pc'[a] # pc[a] \/ timer'[a] # timer[a] \/ cancels'[a] # cancels[a]

\* Nothing of request b changes.
Untouched(b) ==
  /\ config'[b] = config[b] /\ future'[b] = future[b] /\ signal'[b] = signal[b]
  /\ timer'[b] = timer[b] /\ pc'[b] = pc[b] /\ res'[b] = res[b]
  /\ initValue'[b] = initValue[b] /\ initError'[b] = initError[b]
  /\ bodyEnd'[b] = bodyEnd[b] /\ cancels'[b] = cancels[b]
  /\ resolveCalls'[b] = resolveCalls[b]

\* C18: of two requests made concurrently, every event of one (its make,
\* its cancel, its timer, the end of its transfer) leaves the other's
\* signal, timer, future and everything else untouched.
C18_RequestsAreIsolated ==
  [][\A a, b \in Reqs : (a # b /\ Moves(a)) => Untouched(b)]_vars

\* C18 witness: A was cancelled and its fetch aborted while B, made with a
\* timeout, resolved with a success result.
C18_Witness ==
  /\ future["A"] = Cancelled /\ initError["A"] = CanceledError /\ Done("A")
  /\ config["B"].timeout.set /\ ~signal["B"].aborted /\ ResolvedOk("B")

\* C23: the timer is never cleared, and when it expires on a request whose
\* future is no longer pending (resolved or cancelled) the future keeps its
\* state and value in that step and in every later one, the abort reason of
\* a cancelled request stays the CanceledError, and so no TimeoutError is
\* delivered.
C23_LateExpiryChangesNothing ==
  [][\A r \in Reqs :
       /\ (timer[r] = "armed" /\ future[r].tag # "Pending") => timer'[r] # "none"
       /\ (timer[r] = "armed" /\ timer'[r] = "fired" /\ future[r].tag # "Pending") =>
            /\ future'[r] = future[r]
            /\ future[r] = Cancelled => signal'[r].reason = CanceledError
       /\ (timer[r] = "fired" /\ future[r].tag # "Pending") =>
            /\ future'[r] = future[r]
            /\ (future[r] = Cancelled /\ signal[r].reason = CanceledError) =>
                 initError'[r].name # "TimeoutError"]_vars

\* C23 witness: a request that was cancelled with its timer still armed,
\* whose timer then expired and whose then-callback has run.
C23_Witness ==
  \E r \in Reqs :
    /\ future[r] = Cancelled /\ timer[r] = "fired"
    /\ signal[r].reason = CanceledError /\ Done(r)

\* C24: badStatusToError and then emptyToError on an outcome o gives Ok(v)
\* exactly when o.ok is true and o.response is Some(v), a BadStatusError
\* (with the url and the status of o) whenever o.ok is false, whether or not
\* a body is present, and an EmptyResponseError exactly when o.ok is true
\* and the body is absent.
C24_ChainedPostProcessors ==
  post.by = "chain" =>
    /\ post.out.tag = "Ok" <=> (post.o.ok /\ post.o.response.tag = "Some")
    /\ post.out.tag = "Ok" =>
         (post.out.body = post.o.response.value /\ post.out.outcome = NoResponse)
    /\ ~post.o.ok =>
         /\ post.out.tag = "Error" /\ post.out.error.name = "BadStatusError"
         /\ post.out.error.url = post.o.url /\ post.out.error.status = post.o.status
    /\ (post.out.tag = "Error" /\ post.out.error.name = "EmptyResponseError") <=>
         (post.o.ok /\ post.o.response.tag = "None")

\* C24 witness: the chain applied to an outcome that is not ok and has no
\* body: the BadStatusError, not the EmptyResponseError.
C24_Witness ==
  /\ post.by = "chain" /\ ~post.o.ok /\ post.o.response = None
  /\ post.out.error.name = "BadStatusError"

\* C25: once the cancel action of a request has run (its future is
\* cancelled), no path of the executor calls the resolver of the future any
\* more: not the success path, not the error path, not the timeout path.
C25_NoResolveAfterCancel ==
  [][\A r \in Reqs : future[r] = Cancelled => resolveCalls'[r] = resolveCalls[r]]_vars

\* C21: at the step that sends the body, every entry of the configured
\* header mapping has been set on the transport request (and nothing else),
\* the load, error and timeout handlers are registered, and the transport
\* has fired no event yet.
C21_ReadyBeforeSend ==
  [][(xhr.pc # "sent" /\ xhr'.pc = "sent") =>
       /\ xhr.attached =
            (IF xhr.config.headers.set THEN xhr.config.headers.entries ELSE {})
       /\ {"error", "load", "timeout"} \subseteq xhr.listeners
       /\ xhr.fired = 0]_vars

\* C21 witness: a request sent with the three entries of its mapping set
\* (one of them with an empty value) and its handlers registered.
C21_Witness ==
  /\ xhr.pc = "sent" /\ xhr.fired = 1 /\ xhr.last = "loadstart" /\ xhr.cancels = 0
  /\ xhr.config.headers.entries = HeaderEntries /\ xhr.attached = HeaderEntries
  /\ {"error", "load", "timeout"} \subseteq xhr.listeners

\* A terminal handler has run or the caller has cancelled: the load handler
\* of a request that was sent is no longer registered.
CleanedUp == xhr.pc = "sent" /\ "load" \notin xhr.listeners

\* C22: once a terminal handler has run or the caller has cancelled, no
\* listener is left registered, the observers of the caller included, and
\* no event the transport still fires is forwarded to them.
C22_ObserversSilentAfterCleanup ==
  [][CleanedUp => (xhr.listeners = {} /\ xhr'.forwarded = xhr.forwarded)]_vars

\* C22 witness: the caller supplied both observers, the request resolved,
\* the transport then fired a progress event, and only the loadstart of
\* send() was ever forwarded.
C22_Witness ==
  /\ xhr.config.onProgress /\ xhr.config.onLoadStart
  /\ xhr.future.tag = "Resolved" /\ xhr.last = "progress" /\ xhr.forwarded = 1

====
